---- MODULE Spec2Model ----
(***************************************************************************)
(* AVR 4-bit character-LCD driver (LCD.c, LCD.h, main.c).                  *)
(*                                                                         *)
(* The program is modelled statement by statement: the state is the port   *)
(* register PORTB, the direction register DDRB and the call stack; every   *)
(* write to the port and every busy-wait is one step.  The LCD controller  *)
(* is an observer that latches RS and DB4..DB7 on each falling edge of EN. *)
(*                                                                         *)
(* Two specifications:                                                     *)
(*   Spec     main(): lcd_init() once, then the idle loop (main.c)         *)
(*   SpecApi  an application that calls lcd_init() and then the driver's   *)
(*            operations with arbitrary arguments                          *)
(***************************************************************************)
EXTENDS Integers, Sequences, FiniteSets, TLC

(***************************************************************************)
(* Bounds of the model (not program constants).                            *)
(***************************************************************************)
\* longest text (characters before the closing NUL) handed to lcd_puts
MaxStrLen == 2

(***************************************************************************)
(* LCD.h: pin assignment and command bytes.                                *)
(***************************************************************************)
LCD_RS == 0
LCD_RW == 2
LCD_EN == 1
LCD_DB4 == 4
LCD_DB5 == 5
LCD_DB6 == 6
LCD_DB7 == 7

LCD_CLR == 1
LCD_ON == 12
LCD_OFF == 8
LCD_LINE1 == 128
LCD_LINE2 == 192

DATA_INSTRUCTION == 1
COMMAND_INSTRUCTION == 0

LCD_DISPLAY_OFF == 0
LCD_DISPLAY_ON == 12
LCD_CURSOR_OFF == 0
LCD_CURSOR_ON == 10
LCD_BLINK_OFF == 0
LCD_BLINK_ON == 9

(***************************************************************************)
(* 8-bit arithmetic.                                                       *)
(***************************************************************************)
Byte == 0 .. 255

Bit(v, k) == (v \div (2 ^ k)) % 2

\* a & b on 8 bits
And8(a, b) ==
    LET t(k) == Bit(a, k) * Bit(b, k) * (2 ^ k)
    IN  t(0) + t(1) + t(2) + t(3) + t(4) + t(5) + t(6) + t(7)

\* a | b on 8 bits
Or8(a, b) ==
    LET t(k) == (IF Bit(a, k) = 1 \/ Bit(b, k) = 1 THEN 1 ELSE 0) * (2 ^ k)
    IN  t(0) + t(1) + t(2) + t(3) + t(4) + t(5) + t(6) + t(7)

\* ~a, truncated to the 8 bits of the port register
Not8(a) == 255 - a

\* 1 << k
Shl1(k) == 2 ^ k

\* conversion of an int to unsigned char (argument passing to lcd_cmd)
ToUByte(n) == n % 256


(***************************************************************************)
(* The nibble masks that lcd_cmd and lcd_putc write to the port.           *)
(***************************************************************************)
\* (x & m) >= 1, as an int
Test(x, m) == IF And8(x, m) >= 1 THEN 1 ELSE 0

\* (((v & 16) >= 1) << LCD_DB4) | ... | (((v & 128) >= 1) << LCD_DB7)
HighNibbleMask(v) ==
    Or8(Or8(Test(v, 16) * Shl1(LCD_DB4), Test(v, 32) * Shl1(LCD_DB5)),
        Or8(Test(v, 64) * Shl1(LCD_DB6), Test(v, 128) * Shl1(LCD_DB7)))

\* faulty variant of LowNibbleMask: the masks 2, 4, 8, 16 in place of 1, 2, 4, 8
LowNibbleMask_shifted(v) ==
    Or8(Or8(Test(v, 2) * Shl1(LCD_DB4), Test(v, 4) * Shl1(LCD_DB5)),
        Or8(Test(v, 8) * Shl1(LCD_DB6), Test(v, 16) * Shl1(LCD_DB7)))

\* (((v & 1) >= 1) << LCD_DB4) | ... | (((v & 8) >= 1) << LCD_DB7)
LowNibbleMask(v) ==
    Or8(Or8(Test(v, 1) * Shl1(LCD_DB4), Test(v, 2) * Shl1(LCD_DB5)),
        Or8(Test(v, 4) * Shl1(LCD_DB6), Test(v, 8) * Shl1(LCD_DB7)))

\* the value of DDRB that lcd_init writes
DdrOutputs ==
    Or8(Or8(Or8(Shl1(LCD_DB4), Shl1(LCD_DB5)), Or8(Shl1(LCD_DB6), Shl1(LCD_DB7))),
        Or8(Or8(Shl1(LCD_RS), Shl1(LCD_RW)), Shl1(LCD_EN)))

(***************************************************************************)
(* Text.                                                                   *)
(***************************************************************************)
\* "Hello" and "World!" with their closing NUL
StrHello == <<72, 101, 108, 108, 111, 0>>
StrWorld == <<87, 111, 114, 108, 100, 33, 0>>

RECURSIVE Digits(_)
\* sprintf(buffer, "%d", n) for n >= 0: the decimal digits as ASCII
Digits(n) == IF n < 10 THEN <<48 + n>> ELSE Append(Digits(n \div 10), 48 + (n % 10))

\* faulty variant of Sprintf: "%03d" in place of "%d"
Sprintf_zero_padded(n) ==
    <<48 + (n \div 100), 48 + ((n \div 10) % 10), 48 + (n % 10), 0>>

\* the buffer after sprintf: digits and the closing NUL
Sprintf(n) == Append(Digits(n), 0)

(***************************************************************************)
(* State.                                                                  *)
(***************************************************************************)
VARIABLES
    PORTB,       \* LCD_PORT, the 8-bit output register
    DDRB,        \* LCD_DDR, the 8-bit direction register
    stack,       \* call stack, innermost frame first
    charSigned,  \* whether plain char is signed in this build
    op,          \* the driver operation the application called last
    events,      \* port writes and delays since that call, in order
    latched,     \* <<RS, DB7..DB4>> the controller latched at each falling edge of EN
    quiet,       \* a delay has elapsed since the last falling edge of EN
    pulses       \* falling edges of EN since the current transmit's first port write

vars == <<PORTB, DDRB, stack, charSigned, op, events, latched, quiet, pulses>>

Frame(f, a, b, s) == [fn |-> f, pc |-> 1, a |-> a, b |-> b, s |-> s]
Op(n, a, b, s) == [name |-> n, a |-> a, b |-> b, s |-> s]

Top == Head(stack)
At(f, p) == stack # <<>> /\ Top.fn = f /\ Top.pc = p
\* the stack with the innermost frame moved to statement p
Goto(p) == <<[Top EXCEPT !.pc = p]>> \o Tail(stack)
\* call f, to continue at statement p on return
Call(f, p) == <<f>> \o Goto(p)
\* call f as the last statement of the innermost function
TailCall(f) == <<f>> \o Tail(stack)
Return == Tail(stack)

\* the value of a char holding the byte b
CharVal(b) == IF charSigned /\ b >= 128 THEN b - 256 ELSE b

(***************************************************************************)
(* The bus: a write to LCD_PORT, seen by the controller, and a busy-wait.  *)
(***************************************************************************)
Falls(old, new) == Bit(old, LCD_EN) = 1 /\ Bit(new, LCD_EN) = 0

\* LCD_PORT = v / LCD_PORT |= .. / LCD_PORT &= ..
WritePort(kind, v) ==
    /\ PORTB' = v
    /\ events' = Append(events, <<kind, v>>)
    /\ latched' = IF Falls(PORTB, v)
                    THEN Append(latched, <<Bit(PORTB, LCD_RS), PORTB \div 16>>)
                    ELSE latched
    /\ quiet' = IF Falls(PORTB, v) THEN FALSE ELSE quiet

\* _delay_ms(n) / _delay_us(n)
Delay(unit, n) ==
    /\ events' = Append(events, <<unit, n>>)
    /\ quiet' = TRUE
    /\ UNCHANGED <<PORTB, latched>>

Silent == UNCHANGED <<PORTB, events, latched, quiet>>

(***************************************************************************)
(* lcd_enable_signal                                                       *)
(***************************************************************************)
\* faulty variant of lcd_enable_signal_set: LCD_PORT = (1 << LCD_EN), not |=
lcd_enable_signal_set_assign ==
    /\ At("lcd_enable_signal", 1)
    /\ WritePort("or", Shl1(LCD_EN))
    /\ stack' = Goto(2)
    /\ UNCHANGED <<DDRB, charSigned, op, pulses>>

lcd_enable_signal_set ==
    /\ At("lcd_enable_signal", 1)
    /\ WritePort("or", Or8(PORTB, Shl1(LCD_EN)))
    /\ stack' = Goto(2)
    /\ UNCHANGED <<DDRB, charSigned, op, pulses>>

lcd_enable_signal_delay ==
    /\ At("lcd_enable_signal", 2)
    /\ Delay("ms", 1)
    /\ stack' = Goto(3)
    /\ UNCHANGED <<DDRB, charSigned, op, pulses>>

\* faulty variant of lcd_enable_signal_clear: &= (1 << LCD_EN), the ~ forgotten
lcd_enable_signal_clear_without_not ==
    /\ At("lcd_enable_signal", 3)
    /\ WritePort("and", And8(PORTB, Shl1(LCD_EN)))
    /\ pulses' = pulses + 1
    /\ stack' = Return
    /\ UNCHANGED <<DDRB, charSigned, op>>

\* faulty variant of lcd_enable_signal_clear: clears LCD_RW in place of LCD_EN
lcd_enable_signal_clear_wrong_pin ==
    /\ At("lcd_enable_signal", 3)
    /\ WritePort("and", And8(PORTB, Not8(Shl1(LCD_RW))))
    /\ pulses' = pulses + 1
    /\ stack' = Return
    /\ UNCHANGED <<DDRB, charSigned, op>>

lcd_enable_signal_clear ==
    /\ At("lcd_enable_signal", 3)
    /\ WritePort("and", And8(PORTB, Not8(Shl1(LCD_EN))))
    /\ pulses' = pulses + 1
    /\ stack' = Return
    /\ UNCHANGED <<DDRB, charSigned, op>>

(***************************************************************************)
(* lcd_cmd_signal                                                          *)
(***************************************************************************)
lcd_cmd_signal_select ==
    /\ At("lcd_cmd_signal", 1)
    /\ WritePort("and", And8(PORTB, Not8(Or8(Shl1(LCD_RW), Shl1(LCD_RS)))))
    /\ stack' = Goto(2)
    /\ UNCHANGED <<DDRB, charSigned, op, pulses>>

lcd_cmd_signal_enable ==
    /\ At("lcd_cmd_signal", 2)
    /\ stack' = TailCall(Frame("lcd_enable_signal", 0, 0, <<>>))
    /\ Silent
    /\ UNCHANGED <<DDRB, charSigned, op, pulses>>

(***************************************************************************)
(* lcd_cmd                                                                 *)
(***************************************************************************)
\* faulty variant of lcd_cmd_high: LCD_PORT |= mask in place of LCD_PORT = mask
lcd_cmd_high_or ==
    /\ At("lcd_cmd", 1)
    /\ WritePort("mask", Or8(PORTB, HighNibbleMask(Top.a)))
    /\ pulses' = 0
    /\ stack' = Goto(2)
    /\ UNCHANGED <<DDRB, charSigned, op>>

lcd_cmd_high ==
    /\ At("lcd_cmd", 1)
    /\ WritePort("mask", HighNibbleMask(Top.a))
    /\ pulses' = 0
    /\ stack' = Goto(2)
    /\ UNCHANGED <<DDRB, charSigned, op>>

lcd_cmd_high_signal ==
    /\ At("lcd_cmd", 2)
    /\ stack' = Call(Frame("lcd_cmd_signal", 0, 0, <<>>), 3)
    /\ Silent
    /\ UNCHANGED <<DDRB, charSigned, op, pulses>>

lcd_cmd_low ==
    /\ At("lcd_cmd", 3)
    /\ WritePort("mask", LowNibbleMask(Top.a))
    /\ stack' = Goto(4)
    /\ UNCHANGED <<DDRB, charSigned, op, pulses>>

lcd_cmd_low_signal ==
    /\ At("lcd_cmd", 4)
    /\ stack' = Call(Frame("lcd_cmd_signal", 0, 0, <<>>), 5)
    /\ Silent
    /\ UNCHANGED <<DDRB, charSigned, op, pulses>>

\* faulty variant of lcd_cmd_settle: returns without the _delay_us(200)
lcd_cmd_settle_skipped ==
    /\ At("lcd_cmd", 5)
    /\ stack' = Return
    /\ Silent
    /\ UNCHANGED <<DDRB, charSigned, op, pulses>>

lcd_cmd_settle ==
    /\ At("lcd_cmd", 5)
    /\ Delay("us", 200)
    /\ stack' = Return
    /\ UNCHANGED <<DDRB, charSigned, op, pulses>>

(***************************************************************************)
(* lcd_data_signal                                                         *)
(***************************************************************************)
\* faulty variant of lcd_data_signal_write: |= (1 << LCD_RW) in place of &= ~(1 << LCD_RW)
lcd_data_signal_write_sets_rw ==
    /\ At("lcd_data_signal", 1)
    /\ WritePort("or", Or8(PORTB, Shl1(LCD_RW)))
    /\ stack' = Goto(2)
    /\ UNCHANGED <<DDRB, charSigned, op, pulses>>

lcd_data_signal_write ==
    /\ At("lcd_data_signal", 1)
    /\ WritePort("and", And8(PORTB, Not8(Shl1(LCD_RW))))
    /\ stack' = Goto(2)
    /\ UNCHANGED <<DDRB, charSigned, op, pulses>>

lcd_data_signal_select ==
    /\ At("lcd_data_signal", 2)
    /\ WritePort("or", Or8(PORTB, Shl1(LCD_RS)))
    /\ stack' = Goto(3)
    /\ UNCHANGED <<DDRB, charSigned, op, pulses>>

lcd_data_signal_enable ==
    /\ At("lcd_data_signal", 3)
    /\ stack' = TailCall(Frame("lcd_enable_signal", 0, 0, <<>>))
    /\ Silent
    /\ UNCHANGED <<DDRB, charSigned, op, pulses>>

(***************************************************************************)
(* lcd_putc                                                                *)
(***************************************************************************)
lcd_putc_high ==
    /\ At("lcd_putc", 1)
    /\ WritePort("mask", HighNibbleMask(Top.a))
    /\ pulses' = 0
    /\ stack' = Goto(2)
    /\ UNCHANGED <<DDRB, charSigned, op>>

lcd_putc_high_signal ==
    /\ At("lcd_putc", 2)
    /\ stack' = Call(Frame("lcd_data_signal", 0, 0, <<>>), 3)
    /\ Silent
    /\ UNCHANGED <<DDRB, charSigned, op, pulses>>

lcd_putc_low ==
    /\ At("lcd_putc", 3)
    /\ WritePort("mask", LowNibbleMask(Top.a))
    /\ stack' = Goto(4)
    /\ UNCHANGED <<DDRB, charSigned, op, pulses>>

\* faulty variant of lcd_putc_low_signal: calls lcd_cmd_signal for the low nibble
lcd_putc_low_signal_as_cmd ==
    /\ At("lcd_putc", 4)
    /\ stack' = Call(Frame("lcd_cmd_signal", 0, 0, <<>>), 5)
    /\ Silent
    /\ UNCHANGED <<DDRB, charSigned, op, pulses>>

lcd_putc_low_signal ==
    /\ At("lcd_putc", 4)
    /\ stack' = Call(Frame("lcd_data_signal", 0, 0, <<>>), 5)
    /\ Silent
    /\ UNCHANGED <<DDRB, charSigned, op, pulses>>

lcd_putc_settle ==
    /\ At("lcd_putc", 5)
    /\ Delay("us", 200)
    /\ stack' = Return
    /\ UNCHANGED <<DDRB, charSigned, op, pulses>>

(***************************************************************************)
(* lcd_puts: put characters while the character pointed to is > 0.        *)
(* The frame holds the buffer in s and the position of the pointer in a.   *)
(***************************************************************************)
\* faulty variant of lcd_puts_loop: the pointer is advanced before the character is read
lcd_puts_loop_preincrement ==
    /\ At("lcd_puts", 1)
    /\ stack' = IF CharVal(Top.s[Top.a]) > 0
                  THEN <<Frame("lcd_putc", Top.s[Top.a + 1], 0, <<>>),
                         [Top EXCEPT !.a = Top.a + 1]>> \o Tail(stack)
                  ELSE Return
    /\ Silent
    /\ UNCHANGED <<DDRB, charSigned, op, pulses>>

\* faulty variant of lcd_puts_loop: the pointer is never advanced
lcd_puts_loop_no_increment ==
    /\ At("lcd_puts", 1)
    /\ stack' = IF CharVal(Top.s[Top.a]) > 0
                  THEN <<Frame("lcd_putc", Top.s[Top.a], 0, <<>>), Top>> \o Tail(stack)
                  ELSE Return
    /\ Silent
    /\ UNCHANGED <<DDRB, charSigned, op, pulses>>

lcd_puts_loop ==
    /\ At("lcd_puts", 1)
    /\ stack' = IF CharVal(Top.s[Top.a]) > 0
                  THEN <<Frame("lcd_putc", Top.s[Top.a], 0, <<>>),
                         [Top EXCEPT !.a = Top.a + 1]>> \o Tail(stack)
                  ELSE Return
    /\ Silent
    /\ UNCHANGED <<DDRB, charSigned, op, pulses>>

(***************************************************************************)
(* lcd_putn                                                                *)
(***************************************************************************)
lcd_putn_format ==
    /\ At("lcd_putn", 1)
    /\ stack' = <<[Top EXCEPT !.pc = 2, !.s = Sprintf(Top.a)]>> \o Tail(stack)
    /\ Silent
    /\ UNCHANGED <<DDRB, charSigned, op, pulses>>

lcd_putn_puts ==
    /\ At("lcd_putn", 2)
    /\ stack' = TailCall(Frame("lcd_puts", 1, 0, Top.s))
    /\ Silent
    /\ UNCHANGED <<DDRB, charSigned, op, pulses>>

(***************************************************************************)
(* lcd_xy                                                                  *)
(***************************************************************************)
\* the argument lcd_xy passes to lcd_cmd for row y in {1, 2}
XyCommand(x, y) == ToUByte((IF y = 1 THEN LCD_LINE1 ELSE LCD_LINE2) + x)

\* faulty variant of lcd_xy_switch: the default case falls into case 2
lcd_xy_switch_default_line2 ==
    /\ At("lcd_xy", 1)
    /\ stack' = TailCall(Frame("lcd_cmd",
                               ToUByte((IF Top.b = 1 THEN LCD_LINE1 ELSE LCD_LINE2) + Top.a),
                               0, <<>>))
    /\ Silent
    /\ UNCHANGED <<DDRB, charSigned, op, pulses>>

lcd_xy_switch ==
    /\ At("lcd_xy", 1)
    /\ stack' = IF Top.b \in {1, 2}
                  THEN TailCall(Frame("lcd_cmd", XyCommand(Top.a, Top.b), 0, <<>>))
                  ELSE Return
    /\ Silent
    /\ UNCHANGED <<DDRB, charSigned, op, pulses>>

(***************************************************************************)
(* lcd_init                                                                *)
(***************************************************************************)
lcd_init_wait ==
    /\ At("lcd_init", 1)
    /\ Delay("ms", 17)
    /\ stack' = Goto(2)
    /\ UNCHANGED <<DDRB, charSigned, op, pulses>>

lcd_init_ddr ==
    /\ At("lcd_init", 2)
    /\ DDRB' = DdrOutputs
    /\ events' = Append(events, <<"ddr", DdrOutputs>>)
    /\ stack' = Goto(3)
    /\ UNCHANGED <<PORTB, latched, quiet, charSigned, op, pulses>>

\* faulty variant of InitCalls: the function set is sent before the 4-bit mode command
InitCalls_function_set_first ==
    [i \in 3 .. 9 |->
        CASE i = 3 -> Frame("lcd_cmd", 40, 0, <<>>)
          [] i = 4 -> Frame("lcd_cmd", 2, 0, <<>>)
          [] i = 5 -> Frame("lcd_cmd", LCD_ON, 0, <<>>)
          [] i = 6 -> Frame("lcd_xy", 4, 1, <<>>)
          [] i = 7 -> Frame("lcd_puts", 1, 0, StrHello)
          [] i = 8 -> Frame("lcd_xy", 6, 2, <<>>)
          [] i = 9 -> Frame("lcd_puts", 1, 0, StrWorld)]

\* faulty variant of InitCalls: no lcd_cmd(0x02); the function set is sent twice
InitCalls_without_mode_command ==
    [i \in 3 .. 9 |->
        CASE i = 3 -> Frame("lcd_cmd", 40, 0, <<>>)
          [] i = 4 -> Frame("lcd_cmd", 40, 0, <<>>)
          [] i = 5 -> Frame("lcd_cmd", LCD_ON, 0, <<>>)
          [] i = 6 -> Frame("lcd_xy", 4, 1, <<>>)
          [] i = 7 -> Frame("lcd_puts", 1, 0, StrHello)
          [] i = 8 -> Frame("lcd_xy", 6, 2, <<>>)
          [] i = 9 -> Frame("lcd_puts", 1, 0, StrWorld)]

\* the calls lcd_init makes, statement by statement
InitCalls ==
    [i \in 3 .. 9 |->
        CASE i = 3 -> Frame("lcd_cmd", 2, 0, <<>>)
          [] i = 4 -> Frame("lcd_cmd", 40, 0, <<>>)
          [] i = 5 -> Frame("lcd_cmd", LCD_ON, 0, <<>>)
          [] i = 6 -> Frame("lcd_xy", 4, 1, <<>>)
          [] i = 7 -> Frame("lcd_puts", 1, 0, StrHello)
          [] i = 8 -> Frame("lcd_xy", 6, 2, <<>>)
          [] i = 9 -> Frame("lcd_puts", 1, 0, StrWorld)]

lcd_init_call ==
    /\ stack # <<>>
    /\ Top.fn = "lcd_init"
    /\ Top.pc \in DOMAIN InitCalls
    /\ stack' = Call(InitCalls[Top.pc], Top.pc + 1)
    /\ Silent
    /\ UNCHANGED <<DDRB, charSigned, op, pulses>>

lcd_init_final_delay ==
    /\ At("lcd_init", 10)
    /\ Delay("ms", 300)
    /\ stack' = Return
    /\ UNCHANGED <<DDRB, charSigned, op, pulses>>

(***************************************************************************)
(* lcd_display_control (declared in LCD.h; the body is not in the          *)
(* sources): the three facet encodings, OR-ed, sent as one command.        *)
(***************************************************************************)
DisplayControlByte(d, c, b) == Or8(Or8(d, c), b)

lcd_display_control_send ==
    /\ At("lcd_display_control", 1)
    /\ stack' = TailCall(Frame("lcd_cmd", Top.a, 0, <<>>))
    /\ Silent
    /\ UNCHANGED <<DDRB, charSigned, op, pulses>>

(***************************************************************************)
(* main                                                                    *)
(***************************************************************************)
main_init ==
    /\ At("main", 1)
    /\ stack' = Call(Frame("lcd_init", 0, 0, <<>>), 2)
    /\ op' = Op("lcd_init", 0, 0, <<>>)
    /\ Silent
    /\ UNCHANGED <<DDRB, charSigned, pulses>>

main_loop ==
    /\ At("main", 2)
    /\ UNCHANGED vars

(***************************************************************************)
(* An application using the driver: lcd_init first, then any operation.    *)
(***************************************************************************)
\* characters of the texts handed to lcd_puts: NUL, 'A', 'B', 0x80
CharSet == {0, 65, 66, 128}

RECURSIVE Texts(_)
Texts(n) ==
    IF n = 0 THEN {<<>>}
    ELSE Texts(n - 1) \cup {Append(t, c) : t \in {u \in Texts(n - 1) : Len(u) = n - 1}, c \in CharSet}

\* NUL-terminated buffers
Buffers == {Append(t, 0) : t \in Texts(MaxStrLen)}

\* rows handed to lcd_xy
Rows == {0, 1, 2, 3, 5, 255}

app_init ==
    /\ At("app", 1)
    /\ stack' = Call(Frame("lcd_init", 0, 0, <<>>), 3)
    /\ op' = Op("lcd_init", 0, 0, <<>>)
    /\ Silent
    /\ UNCHANGED <<DDRB, charSigned, pulses>>

\* the application calls operation f; the record of the last call starts afresh
Invoke(f, o) ==
    /\ stack' = Call(f, 3)
    /\ op' = o
    /\ events' = <<>>
    /\ latched' = <<>>
    /\ UNCHANGED <<PORTB, DDRB, charSigned, quiet, pulses>>

\* the one bit of the port that LCD.h assigns to no LCD line
SparePin == 3

\* for lcd_cmd and lcd_putc the record keeps, in b, the spare bit as it was at the call
app_lcd_cmd ==
    /\ At("app", 2)
    /\ \E v \in Byte :
          Invoke(Frame("lcd_cmd", v, 0, <<>>), Op("lcd_cmd", v, Bit(PORTB, SparePin), <<>>))

app_lcd_putc ==
    /\ At("app", 2)
    /\ \E v \in Byte :
          Invoke(Frame("lcd_putc", v, 0, <<>>), Op("lcd_putc", v, Bit(PORTB, SparePin), <<>>))

app_lcd_puts ==
    /\ At("app", 2)
    /\ \E s \in Buffers : Invoke(Frame("lcd_puts", 1, 0, s), Op("lcd_puts", 0, 0, s))

app_lcd_putn ==
    /\ At("app", 2)
    /\ \E n \in Byte : Invoke(Frame("lcd_putn", n, 0, <<>>), Op("lcd_putn", n, 0, <<>>))

app_lcd_xy ==
    /\ At("app", 2)
    /\ \E x \in Byte, y \in Rows :
          Invoke(Frame("lcd_xy", x, y, <<>>), Op("lcd_xy", x, y, <<>>))

app_lcd_display_control ==
    /\ At("app", 2)
    /\ \E d \in {LCD_DISPLAY_OFF, LCD_DISPLAY_ON},
          c \in {LCD_CURSOR_OFF, LCD_CURSOR_ON},
          b \in {LCD_BLINK_OFF, LCD_BLINK_ON} :
          Invoke(Frame("lcd_display_control", DisplayControlByte(d, c, b), 0, <<>>),
                 Op("lcd_display_control", d, c, <<b>>))

\* between two calls the application drives the spare pin of the port high
app_spare_pin ==
    /\ At("app", 2)
    /\ Bit(PORTB, SparePin) = 0
    /\ PORTB' = Or8(PORTB, Shl1(SparePin))
    /\ UNCHANGED <<DDRB, stack, charSigned, op, events, latched, quiet, pulses>>

\* the operation has returned; the application goes on to its next call
app_next ==
    /\ At("app", 3)
    /\ stack' = Goto(2)
    /\ op' = Op("none", 0, 0, <<>>)
    /\ events' = <<>>
    /\ latched' = <<>>
    /\ UNCHANGED <<PORTB, DDRB, charSigned, quiet, pulses>>

(***************************************************************************)
(* Specifications.                                                         *)
(***************************************************************************)
\* registers after reset; nothing has been called
Start(f) ==
    /\ PORTB = 0
    /\ DDRB = 0
    /\ stack = <<Frame(f, 0, 0, <<>>)>>
    /\ charSigned \in BOOLEAN
    /\ op = Op("none", 0, 0, <<>>)
    /\ events = <<>>
    /\ latched = <<>>
    /\ quiet = TRUE
    /\ pulses = 0

Driver ==
    \/ lcd_enable_signal_set \/ lcd_enable_signal_delay \/ lcd_enable_signal_clear
    \/ lcd_cmd_signal_select \/ lcd_cmd_signal_enable
    \/ lcd_cmd_high \/ lcd_cmd_high_signal \/ lcd_cmd_low \/ lcd_cmd_low_signal
    \/ lcd_cmd_settle
    \/ lcd_data_signal_write \/ lcd_data_signal_select \/ lcd_data_signal_enable
    \/ lcd_putc_high \/ lcd_putc_high_signal \/ lcd_putc_low \/ lcd_putc_low_signal
    \/ lcd_putc_settle
    \/ lcd_puts_loop
    \/ lcd_xy_switch
    \/ lcd_init_wait \/ lcd_init_ddr \/ lcd_init_call \/ lcd_init_final_delay

Init == Start("main")

Next == Driver \/ main_init \/ main_loop

Spec == Init /\ [][Next]_vars

\* the processor always executes its next instruction
SpecLive == Init /\ [][Next]_vars /\ WF_vars(Next)

InitApi == Start("app")

NextApi ==
    \/ Driver
    \/ lcd_putn_format \/ lcd_putn_puts
    \/ lcd_display_control_send
    \/ app_init \/ app_next \/ app_spare_pin
    \/ app_lcd_cmd \/ app_lcd_putc \/ app_lcd_puts \/ app_lcd_putn \/ app_lcd_xy
    \/ app_lcd_display_control

SpecApi == InitApi /\ [][NextApi]_vars

(***************************************************************************)
(* Reading the record of an operation.                                     *)
(***************************************************************************)
\* the operation the application called has returned
Returned == At("app", 3)

\* main has reached its idle loop
Idling == At("main", 2)

IsPortEvent(e) == e[1] \in {"mask", "and", "or"}

\* the writes LCD_PORT = <nibble mask>
Masks(ev) == SelectSeq(ev, LAMBDA e : e[1] = "mask")

\* the port values written that have EN high
EnableHigh(ev) == SelectSeq(ev, LAMBDA e : IsPortEvent(e) /\ Bit(e[2], LCD_EN) = 1)

RECURSIVE Instructions(_)
\* the latched nibbles read two by two, as the controller does in 4-bit mode:
\* <<class, value>>, the class being 2 when RS differs between the halves
Instructions(l) ==
    IF Len(l) < 2 THEN <<>>
    ELSE <<<<IF l[1][1] = l[2][1] THEN l[1][1] ELSE 2, l[1][2] * 16 + l[2][2]>>>>
         \o Instructions(SubSeq(l, 3, Len(l)))

\* the class tag of the transmit function f
ClassOf(f) == IF f = "lcd_putc" THEN DATA_INSTRUCTION ELSE COMMAND_INSTRUCTION

IsTransmit(f) == f \in {"lcd_cmd", "lcd_putc"}

\* the frame of the transmit in progress (innermost lcd_cmd or lcd_putc)
TxFrames == SelectSeq(stack, LAMBDA f : IsTransmit(f.fn))

C2_NibbleBitPlacement ==
    (Returned /\ IsTransmit(op.name) /\ Len(Masks(events)) = 2) =>
        LET hi == Masks(events)[1][2]
            lo == Masks(events)[2][2]
        IN  /\ Bit(hi, LCD_DB4) = Bit(op.a, 4)
            /\ Bit(hi, LCD_DB5) = Bit(op.a, 5)
            /\ Bit(hi, LCD_DB6) = Bit(op.a, 6)
            /\ Bit(hi, LCD_DB7) = Bit(op.a, 7)
            /\ Bit(lo, LCD_DB4) = Bit(op.a, 0)
            /\ Bit(lo, LCD_DB5) = Bit(op.a, 1)
            /\ Bit(lo, LCD_DB6) = Bit(op.a, 2)
            /\ Bit(lo, LCD_DB7) = Bit(op.a, 3)

C2_Witness ==
    /\ Returned
    /\ op.name = "lcd_cmd"
    /\ op.a = 40
    /\ Masks(events) = <<<<"mask", 32>>, <<"mask", 128>>>>

C4_TransmitsDoNotOverlap ==
    [][/\ ((At("lcd_cmd", 1) \/ At("lcd_putc", 1)) /\ stack' # stack) =>
              (quiet /\ pulses \in {0, 2} /\ (pulses = 0 => latched = <<>>))
       /\ ((At("lcd_cmd", 5) \/ At("lcd_putc", 5)) /\ stack' # stack) =>
              (pulses = 2 /\ ~quiet /\ quiet')]_vars

C4_Witness ==
    /\ At("lcd_putc", 2)
    /\ Len(stack) = 3
    /\ stack[2].fn = "lcd_puts"
    /\ Len(latched) = 2
    /\ Len(events) > 13
    /\ events[13] = <<"us", 200>>
    /\ events[14][1] = "mask"

(***************************************************************************)
(* C5  lcd_puts transmits one Data instruction per character before the    *)
(* first terminator (the first character whose value is <= 0), in order,   *)
(* and nothing for or after the terminator ("AB": Data 0x41, Data 0x42;    *)
(* the empty text: nothing).                                               *)
(***************************************************************************)
\* the characters of s before the first one whose value is <= 0
BeforeTerminator(s) ==
    LET stops == {i \in 1 .. Len(s) : CharVal(s[i]) <= 0}
        first == CHOOSE i \in stops : \A j \in stops : i <= j
    IN  SubSeq(s, 1, first - 1)

C5_PutsOnePerCharacter ==
    (Returned /\ op.name = "lcd_puts") =>
        LET text == BeforeTerminator(op.s)
        IN  /\ Instructions(latched) = [i \in 1 .. Len(text) |-> <<DATA_INSTRUCTION, text[i]>>]
            /\ Len(latched) = 2 * Len(text)
            /\ Len(Masks(events)) = 2 * Len(text)

C5_Witness ==
    /\ Returned
    /\ op.name = "lcd_puts"
    /\ op.s = <<65, 66, 0>>
    /\ Instructions(latched) = <<<<1, 65>>, <<1, 66>>>>

(***************************************************************************)
(* C6  lcd_xy with row 1 transmits exactly one Command whose value is      *)
(* 0x80 + column, and with row 2 exactly one Command whose value is        *)
(* 0xC0 + column, for every column.                                        *)
(***************************************************************************)
C6_CursorAddressIsSum ==
    (Returned /\ op.name = "lcd_xy" /\ op.b \in {1, 2}) =>
        Instructions(latched) =
            <<<<COMMAND_INSTRUCTION, (IF op.b = 1 THEN 128 ELSE 192) + op.a>>>>

(***************************************************************************)
(* C7  lcd_xy with a row other than 1 or 2 does nothing: no port write, no *)
(* enable pulse, no delay, nothing latched, and the port and direction     *)
(* registers keep their values across the whole call.                      *)
(***************************************************************************)
C7_InvalidRowIsNoOp ==
    /\ []((op.name = "lcd_xy" /\ op.b \notin {1, 2}) =>
             (events = <<>> /\ latched = <<>>))
    /\ [][(At("lcd_xy", 1) /\ Top.b \notin {1, 2}) =>
             (PORTB' = PORTB /\ DDRB' = DDRB /\ quiet' = quiet /\ stack' = Tail(stack))]_vars

C7_Witness ==
    /\ Returned
    /\ op.name = "lcd_xy"
    /\ op.a = 3
    /\ op.b = 5
    /\ events = <<>>

(***************************************************************************)
(* C8  main calls lcd_init once, before any other bus activity: the first  *)
(* event of the program is the power-on wait (17 ms, at least 15), the     *)
(* second sets all seven LCD lines of DDRB to output, DDRB is written only *)
(* once, every port write comes after both, and the first three            *)
(* instructions transmitted are Command 0x02, Command 0x28, Command 0x0C.  *)
(***************************************************************************)
C8_InitOnceWaitDdrThenMode ==
    /\ op.name \in {"none", "lcd_init"}
    /\ (events # <<>> => op.name = "lcd_init")
    /\ (Len(events) >= 1 => (events[1][1] = "ms" /\ events[1][2] >= 15))
    /\ (Len(events) >= 2 =>
           /\ events[2][1] = "ddr"
           /\ \A k \in {LCD_RS, LCD_RW, LCD_EN, LCD_DB4, LCD_DB5, LCD_DB6, LCD_DB7} :
                  Bit(events[2][2], k) = 1)
    /\ \A i \in 1 .. Len(events) :
           /\ (IsPortEvent(events[i]) => i > 2)
           /\ (events[i][1] = "ddr" => i = 2)
           /\ (events[i] = <<"ms", 17>> => i = 1)
    /\ (PORTB # 0 => Len(events) > 2 /\ DDRB = 247)
    /\ (Len(latched) >= 6 =>
           SubSeq(Instructions(latched), 1, 3) = <<<<0, 2>>, <<0, 40>>, <<0, 12>>>>)
    /\ (Idling => Len(latched) >= 6)

C8_Witness ==
    /\ Idling
    /\ DDRB = 247
    /\ Len(latched) >= 6
    /\ SubSeq(Instructions(latched), 1, 3) = <<<<0, 2>>, <<0, 40>>, <<0, 12>>>>

(***************************************************************************)
(* C9  lcd_init ends by clearing the display: the instruction after the    *)
(* display-control command is Command 0x01 (clear) and it is the last      *)
(* instruction lcd_init transmits.                                         *)
(***************************************************************************)
C9_InitEndsWithClear ==
    Idling =>
        LET ins == Instructions(latched)
        IN  /\ Len(ins) = 4
            /\ ins[4] = <<COMMAND_INSTRUCTION, LCD_CLR>>

(***************************************************************************)
(* C10  For all eight combinations of display, cursor and blink, the OR of *)
(* the facet encodings, which lcd_display_control transmits, is the        *)
(* documented display-control byte: 0x08 (display off) or 0x0C (display    *)
(* on), plus 0x02 with the cursor on, plus 0x01 with blink on.             *)
(***************************************************************************)
DocumentedDisplayControl(d, c, b) ==
    (IF d = LCD_DISPLAY_ON THEN LCD_ON ELSE LCD_OFF)
    + (IF c = LCD_CURSOR_ON THEN 2 ELSE 0)
    + (IF b = LCD_BLINK_ON THEN 1 ELSE 0)

C10_FacetOrIsDocumentedByte ==
    (Returned /\ op.name = "lcd_display_control") =>
        Instructions(latched) =
            <<<<COMMAND_INSTRUCTION, DocumentedDisplayControl(op.a, op.b, op.s[1])>>>>

(***************************************************************************)
(* C11  The read/write line is in write mode at all times: the LCD_RW bit  *)
(* of the port is 0 in every reachable state, during and between all       *)
(* operations.                                                             *)
(***************************************************************************)
C11_AlwaysWriteMode == Bit(PORTB, LCD_RW) = 0

C11_Witness ==
    /\ At("lcd_enable_signal", 2)
    /\ Bit(PORTB, LCD_EN) = 1
    /\ Bit(PORTB, LCD_RS) = 1
    /\ PORTB \div 16 = 15
    /\ Bit(PORTB, LCD_RW) = 0

(***************************************************************************)
(* C12  lcd_putn(n), for every n in 0..255, transmits exactly the decimal  *)
(* digits of n as Data instructions (ASCII '0'..'9'), most significant     *)
(* first, without leading zeros and nothing else: 1 to 3 transmissions,    *)
(* within the 5 digits the buffer holds besides the terminator.            *)
(***************************************************************************)
\* the decimal digits of n in 0..999, most significant first, no leading zeros
DecimalDigits(n) ==
    IF n >= 100 THEN <<n \div 100, (n \div 10) % 10, n % 10>>
    ELSE IF n >= 10 THEN <<n \div 10, n % 10>>
    ELSE <<n>>

C12_PutnDecimalDigits ==
    (Returned /\ op.name = "lcd_putn") =>
        LET d == DecimalDigits(op.a)
            ins == Instructions(latched)
        IN  /\ ins = [i \in 1 .. Len(d) |-> <<DATA_INSTRUCTION, 48 + d[i]>>]
            /\ Len(ins) \in 1 .. 3
            /\ Len(ins) <= 5
            /\ Len(latched) = 2 * Len(d)
            /\ Len(Masks(events)) = 2 * Len(d)

C12_Witness ==
    /\ Returned
    /\ op.name = "lcd_putn"
    /\ op.a = 205
    /\ Instructions(latched) = <<<<1, 50>>, <<1, 48>>, <<1, 53>>>>

(***************************************************************************)
(* C13  The driver is stateless: the sequence of port writes, enable edges *)
(* and delays of an operation is a function of the operation and its       *)
(* arguments alone.  Whatever the port held at the call and whatever ran   *)
(* before, the record of the operation is the sequence written out below,  *)
(* so two runs of one operation with the same arguments give the same      *)
(* sequence.                                                               *)
(***************************************************************************)
\* one nibble n (0..15) of class c on the bus: the port values, written out
NibbleTrace(c, n) ==
    IF c = COMMAND_INSTRUCTION
      THEN <<(<<"mask", 16 * n>>), (<<"and", 16 * n>>), (<<"or", 16 * n + 2>>),
             (<<"ms", 1>>), (<<"and", 16 * n>>)>>
      ELSE <<(<<"mask", 16 * n>>), (<<"and", 16 * n>>), (<<"or", 16 * n + 1>>),
             (<<"or", 16 * n + 3>>), (<<"ms", 1>>), (<<"and", 16 * n + 1>>)>>

\* one instruction: high nibble, low nibble, settle delay
TransmitTrace(c, v) ==
    NibbleTrace(c, v \div 16) \o NibbleTrace(c, v % 16) \o <<(<<"us", 200>>)>>

RECURSIVE TextTrace(_)
\* the Data instructions for the bytes of t, in order
TextTrace(t) ==
    IF t = <<>> THEN <<>>
    ELSE TransmitTrace(DATA_INSTRUCTION, Head(t)) \o TextTrace(Tail(t))

InitTrace ==
    <<(<<"ms", 17>>), (<<"ddr", 247>>)>>
    \o TransmitTrace(0, 2) \o TransmitTrace(0, 40) \o TransmitTrace(0, 12)
    \o TransmitTrace(0, 132) \o TextTrace(<<72, 101, 108, 108, 111>>)
    \o TransmitTrace(0, 198) \o TextTrace(<<87, 111, 114, 108, 100, 33>>)
    \o <<(<<"ms", 300>>)>>

\* what operation o puts on the bus, from o alone
ExpectedTrace(o) ==
    CASE o.name = "lcd_cmd" -> TransmitTrace(COMMAND_INSTRUCTION, o.a)
      [] o.name = "lcd_putc" -> TransmitTrace(DATA_INSTRUCTION, o.a)
      [] o.name = "lcd_puts" -> TextTrace(BeforeTerminator(o.s))
      [] o.name = "lcd_putn" -> TextTrace([i \in 1 .. Len(DecimalDigits(o.a)) |->
                                              48 + DecimalDigits(o.a)[i]])
      [] o.name = "lcd_xy" ->
            IF o.b = 1 THEN TransmitTrace(COMMAND_INSTRUCTION, (128 + o.a) % 256)
            ELSE IF o.b = 2 THEN TransmitTrace(COMMAND_INSTRUCTION, (192 + o.a) % 256)
            ELSE <<>>
      [] o.name = "lcd_display_control" ->
            TransmitTrace(COMMAND_INSTRUCTION, Or8(Or8(o.a, o.b), o.s[1]))
      [] o.name = "lcd_init" -> InitTrace
      [] OTHER -> <<>>

C13_TraceDependsOnArgumentsOnly ==
    /\ (Returned => events = ExpectedTrace(op))
    /\ ((Returned \/ At("app", 2)) => Bit(PORTB, LCD_EN) = 0)

\* lcd_cmd(0x5A) returned after a call made with the spare pin high, a port
\* value no operation of the driver leaves behind
C13_Witness ==
    /\ Returned
    /\ op.name = "lcd_cmd"
    /\ op.a = 90
    /\ op.b = 1
    /\ events = TransmitTrace(COMMAND_INSTRUCTION, 90)
    /\ Len(events) = 11

(***************************************************************************)
(* The interface of the LCD controller (HD44780 class), as far as the      *)
(* nibbles decide it: data length, pending high nibble, lines, font,       *)
(* display, cursor, blink, and the instructions decoded in 4-bit mode.     *)
(* DB0..DB3 are not connected: in 8-bit mode they read as any value.       *)
(***************************************************************************)
NoNibble == <<>>

\* the controller after its power-on reset: 8 bits, 1 line, 5x8, display off
PowerOn ==
    [mode8 |-> TRUE, high |-> NoNibble, N |-> 0, F |-> 0, D |-> 0, C |-> 0, B |-> 0,
     decoded |-> <<>>]

\* the controller c executes the byte v latched with register select rs
Execute(c, rs, v) ==
    IF rs = 1 THEN c
    ELSE IF v \in 32 .. 63
           THEN [c EXCEPT !.mode8 = (Bit(v, 4) = 1), !.N = Bit(v, 3), !.F = Bit(v, 2)]
    ELSE IF v \in 8 .. 15
           THEN [c EXCEPT !.D = Bit(v, 2), !.C = Bit(v, 1), !.B = Bit(v, 0)]
    ELSE c

\* the controllers that c can become on a falling edge of EN with <<RS, DB7..DB4>> = e
Latch(c, e) ==
    IF c.mode8
      THEN {Execute(c, e[1], 16 * e[2] + low) : low \in 0 .. 15}
    ELSE IF c.high = NoNibble
      THEN {[c EXCEPT !.high = e]}
    ELSE {Execute([c EXCEPT !.high = NoNibble,
                            !.decoded = Append(c.decoded, <<c.high[1], 16 * c.high[2] + e[2]>>)],
                  c.high[1], 16 * c.high[2] + e[2])}

RECURSIVE Controllers(_, _)
\* the controllers that those of S can become on the falling edges l
Controllers(S, l) ==
    IF l = <<>> THEN S
    ELSE Controllers(UNION {Latch(c, Head(l)) : c \in S}, Tail(l))

IsPrefix(s, t) == Len(s) <= Len(t) /\ s = SubSeq(t, 1, Len(s))

(***************************************************************************)
(* C14  From the controller's power-on state (8-bit interface) the nibbles *)
(* of lcd_init leave it in 4-bit, 2-line, 5x8 mode with display on, cursor *)
(* off, blink off, and nibble-aligned: once the first three commands are   *)
(* latched this holds in every state, the controller waits for a high      *)
(* nibble exactly between instructions, and every instruction sent after   *)
(* the switch to 4 bits is decoded as sent, in order.                      *)
(***************************************************************************)
\* what lcd_init sends after lcd_cmd(0x02)
SentIn4BitMode ==
    <<(<<0, 40>>), (<<0, 12>>), (<<0, 132>>),
      (<<1, 72>>), (<<1, 101>>), (<<1, 108>>), (<<1, 108>>), (<<1, 111>>),
      (<<0, 198>>),
      (<<1, 87>>), (<<1, 111>>), (<<1, 114>>), (<<1, 108>>), (<<1, 100>>), (<<1, 33>>)>>

C15_LinesStableWhileEnableHigh ==
    [][Bit(PORTB, LCD_EN) = 1 =>
          /\ PORTB' \div 16 = PORTB \div 16
          /\ Bit(PORTB', LCD_RS) = Bit(PORTB, LCD_RS)
          /\ Bit(PORTB', LCD_RW) = Bit(PORTB, LCD_RW)
          /\ \/ PORTB' = PORTB
             \/ /\ PORTB' = PORTB - Shl1(LCD_EN)
                /\ events # <<>>
                /\ events[Len(events)] = <<"ms", 1>>]_vars

C15_Witness ==
    /\ At("lcd_enable_signal", 3)
    /\ Bit(PORTB, LCD_EN) = 1
    /\ Bit(PORTB, LCD_RS) = 1
    /\ PORTB \div 16 = 10
    /\ events[Len(events)] = <<"ms", 1>>

(***************************************************************************)
(* C16  Every transmit makes exactly two rising and two falling edges of   *)
(* EN, one pair per nibble written; EN is low on entry to and on return    *)
(* from every public operation, and only lcd_enable_signal changes EN, so  *)
(* no nibble write makes an edge.                                          *)
(***************************************************************************)
PublicOperations == {"lcd_cmd", "lcd_putc", "lcd_puts", "lcd_putn", "lcd_xy", "lcd_init"}

\* the EN line after each port write of the record ev
EnableLevels(ev) ==
    LET w == SelectSeq(ev, IsPortEvent)
    IN  [i \in 1 .. Len(w) |-> Bit(w[i][2], LCD_EN)]

\* edges to level b in a record that starts with EN low
Edges(ev, b) ==
    LET lv == EnableLevels(ev)
    IN  Cardinality({i \in 1 .. Len(lv) :
                        lv[i] = b /\ (IF i = 1 THEN 0 ELSE lv[i - 1]) = 1 - b})

C16_TwoPulsesPerTransmit ==
    /\ []((Returned /\ IsTransmit(op.name)) =>
             (Edges(events, 1) = 2 /\ Edges(events, 0) = 2 /\ Len(latched) = 2))
    /\ []((Returned /\ op.name \in PublicOperations) =>
             /\ Edges(events, 1) = Len(Masks(events))
             /\ Edges(events, 0) = Len(Masks(events))
             /\ Len(latched) = Len(Masks(events)))
    /\ []((stack # <<>> /\ Top.fn \in PublicOperations /\ Top.pc = 1) =>
             Bit(PORTB, LCD_EN) = 0)
    /\ [][/\ (stack # <<>> /\ Top.fn \in PublicOperations /\ Len(stack') < Len(stack)) =>
                 Bit(PORTB', LCD_EN) = 0
          /\ (Bit(PORTB', LCD_EN) # Bit(PORTB, LCD_EN)) => Top.fn = "lcd_enable_signal"
          /\ ((At("lcd_cmd", 5) \/ At("lcd_putc", 5)) /\ stack' # stack) => pulses = 2]_vars

C16_Witness ==
    /\ Returned
    /\ op.name = "lcd_puts"
    /\ op.s = <<65, 66, 0>>
    /\ Edges(events, 1) = 4
    /\ Edges(events, 0) = 4
    /\ Bit(PORTB, LCD_EN) = 0

(***************************************************************************)
(* C17  For every column in 0..255 and row in {1, 2} the command byte that *)
(* lcd_xy transmits is a set-display-address command: its bit 7 is 1, and  *)
(* it is never clear (0x01) or home (0x02).                                *)
(***************************************************************************)
C17_CursorCommandHasBit7 ==
    (Returned /\ op.name = "lcd_xy" /\ op.b \in {1, 2}) =>
        LET ins == Instructions(latched)
        IN  /\ Len(ins) = 1
            /\ ins[1][1] = COMMAND_INSTRUCTION
            /\ Bit(ins[1][2], 7) = 1
            /\ ins[1][2] \notin {LCD_CLR, 2}

(***************************************************************************)
(* C18  A transmit changes only the seven port bits assigned to the LCD:   *)
(* after lcd_cmd or lcd_putc the bit of the port that is no LCD line       *)
(* (bit 3) has the value it had at the call, whatever the port held.       *)
(***************************************************************************)
C18_SparePinPreserved ==
    (Returned /\ IsTransmit(op.name)) => Bit(PORTB, SparePin) = op.b

(***************************************************************************)
(* C19  Start-up terminates: lcd_init returns after its 16 transmissions   *)
(* (32 nibbles, both lcd_puts loops ending at the terminator), main        *)
(* reaches its idle loop and stays there, and from then on nothing is      *)
(* written or awaited: the port keeps its value, with EN low.              *)
(***************************************************************************)
C19_StartupTerminates ==
    /\ <>[](Idling /\ Bit(PORTB, LCD_EN) = 0 /\ Len(latched) = 32)
    /\ [](Len(latched) <= 32)
    /\ [][Idling => (Idling' /\ PORTB' = PORTB /\ DDRB' = DDRB /\ events' = events)]_vars

C19_Witness ==
    /\ Idling
    /\ Bit(PORTB, LCD_EN) = 0
    /\ Len(latched) = 32
    /\ events[Len(events)] = <<"ms", 300>>

====
